---- MODULE Spec2Model ----
(***************************************************************************)
(* Model of src/label.rs (tagref): `parse` scans the lines of one input    *)
(* with four regular expressions and returns the labels it found, one      *)
(* vector per label type.                                                  *)
(*                                                                         *)
(* A character is its Unicode code point, a natural number, and text is a  *)
(* sequence of code points.  A raw line is the content of one physical     *)
(* line as the reader holds it (terminator removed); the element Invalid   *)
(* stands for a byte sequence that is not valid UTF-8.  The reader is the  *)
(* sequence of the outcomes of its reads: a raw line, or IoFailure for a   *)
(* read that failed and consumed nothing.                                  *)
(***************************************************************************)
EXTENDS Integers, Sequences, FiniteSets, TLC

(***************************************************************************)
(* Bounds of the model.                                                    *)
(***************************************************************************)
MaxLines == 3
MaxCalls == 2
MaxFrags == 5
MaxSpins == 2

(***************************************************************************)
(* Characters.                                                             *)
(***************************************************************************)
\* Not a code point: what a line that is not valid UTF-8 holds.
Invalid == -1

\* The printable ASCII characters, U+0020 to U+007E, in the order of their
\* code points (the grave accent by its name); Ord gives the code point of
\* one of them, Codes the text a sequence of them spells.
Ascii ==
    <<" ", "!", "\"", "#", "$", "%", "&", "'", "(", ")", "*", "+", ",", "-", ".", "/",
      "0", "1", "2", "3", "4", "5", "6", "7", "8", "9", ":", ";", "<", "=", ">", "?",
      "@", "A", "B", "C", "D", "E", "F", "G", "H", "I", "J", "K", "L", "M", "N", "O",
      "P", "Q", "R", "S", "T", "U", "V", "W", "X", "Y", "Z", "[", "\\", "]", "^", "_",
      "U+0060", "a", "b", "c", "d", "e", "f", "g", "h", "i", "j", "k", "l", "m", "n", "o",
      "p", "q", "r", "s", "t", "u", "v", "w", "x", "y", "z", "{", "|", "}", "~">>

Ord(ch) == 31 + (CHOOSE i \in 1..Len(Ascii) : Ascii[i] = ch)
Codes(str) == [i \in 1..Len(str) |-> Ord(str[i])]

\* The characters the patterns name: `[`, `]`, `:`.
LBracket == 91
RBracket == 93
Colon == 58

\* `\s` of the regex crate: the 25 code points with the Unicode property
\* White_Space: U+0009..U+000D, U+0020, U+0085, U+00A0, U+1680,
\* U+2000..U+200A, U+2028, U+2029, U+202F, U+205F and U+3000.
WhiteSpace ==
    (9..13) \cup {32, 133, 160, 5760} \cup (8192..8202)
        \cup {8232, 8233, 8239, 8287, 12288}

\* Some of them by name: U+0009, U+000B, U+0020, U+00A0, U+1680, U+2003 and
\* U+3000.
Tab == 9
VerticalTab == 11
Space == 32
NoBreakSpace == 160
OghamSpace == 5760
EmSpace == 8195
IdeographicSpace == 12288

\* Simple case folding of one character, as `(?i)` applies it when it
\* compares with a letter of a pattern.  The patterns are ASCII; the
\* characters that fold to an ASCII letter are the letter in upper case and,
\* outside ASCII, U+212A (Kelvin sign, to k) and U+017F (long s, to s).
Fold(c) ==
    IF c \in 65..90 THEN c + 32
    ELSE IF c = 8490 THEN 107
    ELSE IF c = 383 THEN 115
    ELSE c

\* `(?i)`: a pattern character matches a text character up to case.
EqExact(p, c) == p = c
EqCI(p, c) == Fold(p) = Fold(c)

\* `\s`
IsSpace(c) == c \in WhiteSpace

\* `[^\]\s]`
IsLabelCharLax(c) == c # RBracket
IsLabelChar(c) == c # RBracket /\ ~IsSpace(c)

\* The patterns.  A pattern is given by its keyword kw and stands for the
\* regular expression  (?i) \[ \s* kw \s* : \s* ( [^\]\s]* ) \s* \]
\* (written here with blanks between its parts).
Kw_tag == Codes(<<"t","a","g">>)
Kw_ref == Codes(<<"r","e","f">>)
Kw_file == Codes(<<"f","i","l","e">>)
Kw_dir == Codes(<<"d","i","r">>)

TAG_REGEX == Kw_tag
REF_REGEX == Kw_ref
FILE_REGEX == Kw_file
DIR_REGEX == Kw_dir

\* `\s*` from position i: the position after the longest run of white space.
\* (SkipNone: the pattern without its `\s*`.)
SkipNone(line, i) == i
RECURSIVE SkipSpace(_, _)
SkipSpace(line, i) ==
    IF i <= Len(line) /\ IsSpace(line[i]) THEN SkipSpace(line, i + 1) ELSE i

\* `[^\]\s]*` from position i: the position after the longest run of label
\* characters.
RECURSIVE SkipLabel(_, _)
SkipLabel(line, i) ==
    IF i <= Len(line) /\ IsLabelChar(line[i]) THEN SkipLabel(line, i + 1) ELSE i

\* The literal keyword at position i, up to case.
MatchKeyword(line, i, kw) ==
    /\ i + Len(kw) - 1 <= Len(line)
    /\ \A k \in 1..Len(kw) : EqCI(kw[k], line[i + k - 1])

\* A literal character at position i.
MatchChar(line, i, c) == i <= Len(line) /\ line[i] = c

NoMatch == [matched |-> FALSE]
None == <<"None">>

\* Group 1 of a match: the span of `([^\]\s]*)`, which takes part in every
\* match of the pattern.
Group1(c, d) == <<c, d>>

\* One attempt of the pattern at start position s.  Every quantifier is
\* greedy and is followed by something its class excludes, so the greedy
\* choice is the only one that can succeed.  `end` is the position after `]`.
MatchAt(kw, line, s) ==
    IF ~MatchChar(line, s, LBracket) THEN NoMatch
    ELSE LET a == SkipSpace(line, s + 1) IN
    IF ~MatchKeyword(line, a, kw) THEN NoMatch
    ELSE LET b == SkipSpace(line, a + Len(kw)) IN
    IF ~MatchChar(line, b, Colon) THEN NoMatch
    ELSE LET c == SkipSpace(line, b + 1)
             d == SkipLabel(line, c)
             e == SkipSpace(line, d) IN
    IF ~MatchChar(line, e, RBracket) THEN NoMatch
    ELSE [matched |-> TRUE, start |-> s, end |-> e + 1, g1 |-> Group1(c, d)]

\* The leftmost match starting at or after position from.
RECURSIVE FindFrom(_, _, _)
FindFrom(kw, line, from) ==
    IF from > Len(line) THEN NoMatch
    ELSE LET m == MatchAt(kw, line, from) IN
         IF m.matched THEN m ELSE FindFrom(kw, line, from + 1)

RECURSIVE CapturesFrom(_, _, _)
CapturesFrom(kw, line, from) ==
    LET m == FindFrom(kw, line, from) IN
    IF ~m.matched THEN <<>>
    ELSE <<m>> \o CapturesFrom(kw, line, m.end)

\* `captures` in place of `captures_iter`: the first match only.
CapturesFirst(kw, line) ==
    LET m == FindFrom(kw, line, 1) IN IF m.matched THEN <<m>> ELSE <<>>

\* regex.captures_iter(&line): the non-overlapping matches, left to right.
CapturesIter(kw, line) == CapturesFrom(kw, line, 1)

(***************************************************************************)
(* The reader.                                                             *)
(***************************************************************************)
\* A read that failed with an I/O error: lines() yields Err and no line is
\* consumed.  It is told from every line by an element that is no code point
\* and is not Invalid either.
IoFailure == <<-2>>

\* Whether an item of reader.lines() is Ok: it is Err for a read that failed
\* and for a line that is not valid UTF-8.
Decodes(item) == item # IoFailure /\ \A i \in 1..Len(item) : item[i] # Invalid

(***************************************************************************)
(* Labels.                                                                 *)
(***************************************************************************)
Types == {"Tag", "Ref", "File", "Dir"}

\* captures.get(1).unwrap().as_str().to_owned()
LabelTextLower(line, m) ==
    LET t == SubSeq(line, m.g1[1], m.g1[2] - 1) IN [i \in 1..Len(t) |-> Fold(t[i])]
LabelText(line, m) == SubSeq(line, m.g1[1], m.g1[2] - 1)

\* line_number + 1, for the index enumerate() gives the item.
LineNumberOf(index) == index + 1

Label(type, line, m, p, index) ==
    [label_type |-> type,
     label |-> LabelText(line, m),
     path |-> p,
     line_number |-> LineNumberOf(index)]

\* One `for captures in regex.captures_iter(&line) { vec.push(..) }` loop,
\* ms being what captures_iter yields.
PushAll(vec, type, ms, line, p, index) ==
    vec \o [j \in 1..Len(ms) |-> Label(type, line, ms[j], p, index)]

\* captures.get(1).unwrap() panics when group 1 took no part in a match.
UnwrapFails(ms) == \E j \in 1..Len(ms) : ms[j].g1 = None

\* The text a pattern is applied to: the line itself, for every pattern.
\* (ScanTextResidual: what is left of the line once the matches of the tag
\* pattern are taken out of it.)
ScanTextResidual(type, pats, line) ==
    IF type = "Tag" THEN line
    ELSE LET ms == CapturesIter(pats.tag, line) IN
         [i \in 1..Len(line) |->
            IF \E j \in 1..Len(ms) : ms[j].start <= i /\ i < ms[j].end
            THEN Space ELSE line[i]]
ScanText(type, pats, line) == line

\* What the four captures_iter calls of one iteration yield.
CapturesOf(pats, line) ==
    [tag |-> CapturesIter(pats.tag, ScanText("Tag", pats, line)),
     ref |-> CapturesIter(pats.ref, ScanText("Ref", pats, line)),
     file |-> CapturesIter(pats.file, ScanText("File", pats, line)),
     dir |-> CapturesIter(pats.dir, ScanText("Dir", pats, line))]

\* Whether an unwrap of the iteration panics.
Panics(caps) ==
    \/ UnwrapFails(caps.tag) \/ UnwrapFails(caps.ref)
    \/ UnwrapFails(caps.file) \/ UnwrapFails(caps.dir)

\* The body of `if let Ok(line) = line_result { .. }`: the four loops, each
\* pushing onto its own vector.
Pushed(caps, p, line, index, acc) ==
    [tags |-> PushAll(acc.tags, "Tag", caps.tag, line, p, index),
     refs |-> PushAll(acc.refs, "Ref", caps.ref, line, p, index),
     files |-> PushAll(acc.files, "File", caps.file, line, p, index),
     dirs |-> PushAll(acc.dirs, "Dir", caps.dir, line, p, index)]

ScanLineWith(pats, p, line, index, acc) ==
    Pushed(CapturesOf(pats, line), p, line, index, acc)

\* Vec::new() four times.
EmptyLabels == [tags |-> <<>>, refs |-> <<>>, files |-> <<>>, dirs |-> <<>>]

\* The index of the next item of reader.lines().enumerate() after the Err
\* item at index: it is passed over, and enumerate() has counted it.
AfterErrAbort(rd, index) == Len(rd)
AfterErr(rd, index) == index + 1

\* parse as a function of its arguments, for a reader that ends after the
\* outcomes rd: the loop from item index on.
RECURSIVE ParseFrom(_, _, _, _, _)
ParseFrom(pats, p, rd, index, acc) ==
    IF index >= Len(rd) THEN acc
    ELSE IF Decodes(rd[index + 1])
         THEN ParseFrom(pats, p, rd, index + 1,
                        ScanLineWith(pats, p, rd[index + 1], index, acc))
         ELSE ParseFrom(pats, p, rd, AfterErr(rd, index), acc)

Parse(pats, p, rd) == ParseFrom(pats, p, rd, 0, EmptyLabels)

(***************************************************************************)
(* Inputs of the model.                                                    *)
(***************************************************************************)
StdPatterns == [tag |-> TAG_REGEX, ref |-> REF_REGEX, file |-> FILE_REGEX, dir |-> DIR_REGEX]
\* Other callers' patterns: the same syntax with the keywords dealt out
\* differently.
AltPatternsA == [tag |-> Kw_dir, ref |-> Kw_ref, file |-> Kw_file, dir |-> Kw_tag]
AltPatternsB == [tag |-> Kw_tag, ref |-> Kw_file, file |-> Kw_ref, dir |-> Kw_dir]
PatternSets == {StdPatterns, AltPatternsA, AltPatternsB}

Paths == {"file.rs", "other.rs"}

Marker(kw, text) == <<LBracket>> \o kw \o <<Colon>> \o text \o <<RBracket>>
T_label == Codes(<<"l","a","b","e","l">>)
T_file == Codes(<<"a","/","b",".","t","x","t">>)
T_dir == Codes(<<"a","/","b">>)

\* one marker of each type, as in tests::parse_multiple_per_line
LineAllKinds ==
    Marker(Kw_tag, T_label) \o Marker(Kw_ref, T_label)
        \o Marker(Kw_file, T_file) \o Marker(Kw_dir, T_dir)
\* the kinds in another order, with white space (U+0020, U+0009, U+3000,
\* U+00A0) and upper case
LineReversed ==
    Marker(Kw_dir, Codes(<<"d">>)) \o <<Space>>
        \o Marker(Codes(<<"R","E","F">>), Codes(<<"R">>))
        \o <<LBracket, Tab>> \o Kw_tag
        \o <<IdeographicSpace, Colon, Space, Ord("t"), NoBreakSpace, RBracket>>
\* the same tag twice, a ref marker without text, and a ref marker inside
\* the text a tag match covers
LineNested ==
    Marker(Kw_tag, Codes(<<"a">>)) \o Marker(Codes(<<"T","A","G">>), Codes(<<"a">>))
        \o Marker(Kw_ref, <<>>)
        \o <<LBracket>> \o Kw_tag \o <<Colon>> \o Marker(Kw_ref, Codes(<<"x">>))
\* text without a marker
LinePlain == Codes(<<"f","n"," ","m","a","i","n","(",")">>)
\* a marker on a line that is not valid UTF-8
LineUndecodable ==
    Marker(Kw_tag, Codes(<<"u">>)) \o Marker(Kw_ref, Codes(<<"u">>)) \o <<Invalid>>

BaseLines == {LineAllKinds, LineReversed, LineNested, LinePlain, LineUndecodable}

\* An input: up to MaxLines outcomes, each one of the lines above or a read
\* that failed.
IsInput(rd) == \E k \in 0..MaxLines : rd \in [1..k -> BaseLines \cup {IoFailure}]

\* Lines put together from fragments of marker syntax; the white space
\* among them is U+2003.
Fragments ==
    {<<LBracket>>, <<RBracket>>, <<Colon>>, <<EmSpace>>, Codes(<<"T","a","G">>),
     Codes(<<"X">>), <<LBracket>> \o Kw_tag \o <<Colon>>}

RECURSIVE Concat(_)
Concat(ss) == IF ss = <<>> THEN <<>> ELSE Head(ss) \o Concat(Tail(ss))

\* An input of a single line: up to MaxFrags fragments, or the undecodable
\* line.
IsFragInput(rd) ==
    \/ \E k \in 0..MaxFrags : \E fs \in [1..k -> Fragments] : rd = <<Concat(fs)>>
    \/ rd = <<LineUndecodable>>

(***************************************************************************)
(* State.                                                                  *)
(***************************************************************************)
VARIABLES
    tag_regex, ref_regex, file_regex, dir_regex,  \* the four patterns
    path,                                         \* the path argument
    reader,                                       \* the outcomes of the reads
    after,                                        \* what reads give after them:
                                                  \* "eof", or "error" for ever
    line_number,                                  \* items of enumerate() consumed
    tags, refs, files, dirs,                      \* the four vectors
    pc,                                           \* "scan", "returned", "panic"
    calls,                                        \* invocations of parse so far
    prev                                          \* Labels of the invocation before

vars == <<tag_regex, ref_regex, file_regex, dir_regex, path, reader, after,
          line_number, tags, refs, files, dirs, pc, calls, prev>>

args == <<tag_regex, ref_regex, file_regex, dir_regex, path, reader, after>>

Pats == [tag |-> tag_regex, ref |-> ref_regex, file |-> file_regex, dir |-> dir_regex]

\* struct Labels { tags, refs, files, dirs }
Labels == [tags |-> tags, refs |-> refs, files |-> files, dirs |-> dirs]

Enter ==
    /\ line_number = 0
    /\ tags = <<>>
    /\ refs = <<>>
    /\ files = <<>>
    /\ dirs = <<>>
    /\ pc = "scan"

InitWith(patsets, paths) ==
    /\ \E ps \in patsets :
        /\ tag_regex = ps.tag
        /\ ref_regex = ps.ref
        /\ file_regex = ps.file
        /\ dir_regex = ps.dir
    /\ path \in paths
    /\ Enter
    /\ calls = 1
    /\ prev = EmptyLabels

\* What follows the reader's outcomes is no concern of the patterns or of the
\* path: a reader that keeps failing is scanned with the standard ones.
Init ==
    /\ IsInput(reader)
    /\ \/ after = "eof" /\ InitWith({StdPatterns, AltPatternsA}, Paths)
       \/ after = "error" /\ InitWith({StdPatterns}, {"file.rs"})

InitLine ==
    /\ IsFragInput(reader)
    /\ after = "eof"
    /\ InitWith({StdPatterns}, {"file.rs"})

(***************************************************************************)
(* Actions.                                                                *)
(***************************************************************************)
\* One iteration of the loop on a line that decoded.
ScanLine ==
    /\ pc = "scan"
    /\ line_number < Len(reader)
    /\ Decodes(reader[line_number + 1])
    /\ LET line == reader[line_number + 1]
           caps == CapturesOf(Pats, line)
           new == Pushed(caps, path, line, line_number, Labels)
       IN IF Panics(caps)
          THEN /\ pc' = "panic"
               /\ UNCHANGED <<tags, refs, files, dirs, line_number>>
          ELSE /\ tags' = new.tags
               /\ refs' = new.refs
               /\ files' = new.files
               /\ dirs' = new.dirs
               /\ line_number' = line_number + 1
               /\ pc' = pc
    /\ UNCHANGED <<args, calls, prev>>

\* One iteration of the loop on an Err item: a line that failed to decode,
\* or a read that failed.
SkipLine ==
    /\ pc = "scan"
    /\ line_number < Len(reader)
    /\ ~Decodes(reader[line_number + 1])
    /\ line_number' = AfterErr(reader, line_number)
    /\ UNCHANGED <<args, tags, refs, files, dirs, pc, calls, prev>>

\* One iteration of the loop on an Err item of a reader whose reads fail
\* for ever: lines() yields Err again and again, and the loop goes on.
SpinOnError ==
    /\ pc = "scan"
    /\ line_number >= Len(reader)
    /\ after = "error"
    /\ line_number < Len(reader) + MaxSpins
    /\ line_number' = line_number + 1
    /\ UNCHANGED <<args, tags, refs, files, dirs, pc, calls, prev>>

\* The end of the lines: Labels { tags, refs, files, dirs } is returned.
Return ==
    /\ pc = "scan"
    /\ line_number = Len(reader)
    /\ after = "eof"
    /\ pc' = "returned"
    /\ UNCHANGED <<args, line_number, tags, refs, files, dirs, calls, prev>>

\* The vectors an invocation starts from.  (StaleVec: a vector kept from the
\* invocation before.)
StaleVec(v) == v
FreshVec(v) == <<>>

\* The caller keeps the Labels it got and calls parse again with the same
\* arguments.
Reinvoke ==
    /\ pc = "returned"
    /\ calls < MaxCalls
    /\ prev' = Labels
    /\ calls' = calls + 1
    /\ line_number' = 0
    /\ tags' = FreshVec(tags)
    /\ refs' = FreshVec(refs)
    /\ files' = FreshVec(files)
    /\ dirs' = FreshVec(dirs)
    /\ pc' = "scan"
    /\ UNCHANGED args

Next == ScanLine \/ SkipLine \/ SpinOnError \/ Return \/ Reinvoke

Spec == Init /\ [][Next]_vars

\* A single invocation on a reader that ends.
NextLine == ScanLine \/ SkipLine \/ Return

SpecLine == InitLine /\ [][NextLine]_vars

(***************************************************************************)
(* The marker syntax, stated on its own terms:                             *)
(*   "[" ws keyword ws ":" ws label-text ws "]"                            *)
(* with the keyword in any mix of cases and the label text free of white   *)
(* space and "]".  Used by the properties below, not by the actions.       *)
(***************************************************************************)
Blank(line, i, j) == \A k \in i..j : line[k] \in WhiteSpace

Spelled(line, a, kw) ==
    /\ a + Len(kw) - 1 <= Len(line)
    /\ \A k \in 1..Len(kw) :
         \/ line[a + k - 1] = kw[k]
         \/ kw[k] \in 97..122 /\ line[a + k - 1] = kw[k] - 32

TextChars(line, i, j) == \A k \in i..j : line[k] \notin WhiteSpace /\ line[k] # RBracket

\* The markers of keyword kw on a line, each as
\* [s: its "[", a: its keyword, b: its ":", gs..ge-1: its text, f: its "]"].
MarkersOn(kw, line) ==
    LET n == Len(line) IN
    UNION {
      UNION {
        UNION {
          UNION {
            { [s |-> s, a |-> a, b |-> b, gs |-> gs, ge |-> ge,
               f |-> CHOOSE f \in ge..n : Blank(line, ge, f - 1) /\ line[f] = RBracket]
              : ge \in {x \in gs..n : /\ TextChars(line, gs, x - 1)
                                       /\ ~TextChars(line, x, x)
                                       /\ \E f \in x..n : Blank(line, x, f - 1) /\ line[f] = RBracket} }
            : gs \in {x \in (b + 1)..n : Blank(line, b + 1, x - 1) /\ ~Blank(line, x, x)} }
          : b \in {x \in (a + Len(kw))..n : Blank(line, a + Len(kw), x - 1) /\ line[x] = Colon} }
        : a \in {x \in (s + 1)..n : Blank(line, s + 1, x - 1) /\ Spelled(line, x, kw)} }
      : s \in {x \in 1..n : line[x] = LBracket} }

\* The non-overlapping markers from left to right: the leftmost one that
\* starts at or after position from, then those after its "]".
RECURSIVE SelectFrom(_, _)
SelectFrom(M, from) ==
    LET rest == {m \in M : m.s >= from} IN
    IF rest = {} THEN <<>>
    ELSE LET m == CHOOSE x \in rest : \A y \in rest : x.s <= y.s IN
         <<m>> \o SelectFrom(M, m.f + 1)

Selected(kw, line) == SelectFrom(MarkersOn(kw, line), 1)

\* A physical line of the input, and one that is valid UTF-8.
IsLine(item) == item # IoFailure
Readable(item) == IsLine(item) /\ ~\E i \in 1..Len(item) : item[i] = Invalid

TypeKw(type) ==
    CASE type = "Tag" -> tag_regex
      [] type = "Ref" -> ref_regex
      [] type = "File" -> file_regex
      [] type = "Dir" -> dir_regex

VecOf(type) ==
    CASE type = "Tag" -> tags
      [] type = "Ref" -> refs
      [] type = "File" -> files
      [] type = "Dir" -> dirs

FieldOf(type, labels) ==
    CASE type = "Tag" -> labels.tags
      [] type = "Ref" -> labels.refs
      [] type = "File" -> labels.files
      [] type = "Dir" -> labels.dirs

PatOf(type, pats) ==
    CASE type = "Tag" -> pats.tag
      [] type = "Ref" -> pats.ref
      [] type = "File" -> pats.file
      [] type = "Dir" -> pats.dir

\* The labels the markers of one type on item n of lines amount to.
LabelsOfLine(type, lines, n) ==
    IF ~Readable(lines[n]) THEN <<>>
    ELSE LET sel == Selected(TypeKw(type), lines[n]) IN
         [j \in 1..Len(sel) |->
            [label_type |-> type,
             label |-> SubSeq(lines[n], sel[j].gs, sel[j].ge - 1),
             path |-> path,
             line_number |-> n]]

RECURSIVE LabelsUpTo(_, _, _)
LabelsUpTo(type, lines, n) ==
    IF n = 0 THEN <<>> ELSE LabelsUpTo(type, lines, n - 1) \o LabelsOfLine(type, lines, n)

\* The physical lines of the input, in order.
PhysicalLines == SelectSeq(reader, IsLine)

\* A vector without its line numbers.
Unnumbered(vec) ==
    [j \in 1..Len(vec) |->
       [label_type |-> vec[j].label_type, label |-> vec[j].label, path |-> vec[j].path]]

\* The entries of a vector that carry line number n.
AtLine(vec, n) == SelectSeq(vec, LAMBDA e : e.line_number = n)

Texts(vec) == [j \in 1..Len(vec) |-> vec[j].label]

(***************************************************************************)
(* Properties.                                                             *)
(***************************************************************************)

\* C1: every label carries the 1-based physical position of the line it was
\* matched on, every physical line counted (lines that failed to decode and
\* lines without markers included): the labels numbered n are those of the
\* markers on physical line n, for every type alike, and no label carries a
\* number that is not the position of a line.
C1_LineNumberIsPhysicalPosition ==
    pc = "returned" =>
      \A type \in Types :
        /\ \A j \in 1..Len(VecOf(type)) :
             VecOf(type)[j].line_number \in 1..Len(PhysicalLines)
        /\ \A n \in 1..Len(PhysicalLines) :
             Texts(AtLine(VecOf(type), n)) = Texts(LabelsOfLine(type, PhysicalLines, n))

\* C3: each vector is the concatenation, in physical line order, of the
\* non-overlapping left-to-right markers of its type on the decodable lines:
\* nothing dropped, nothing invented, duplicates kept.
C3_VectorsAreAllMatchesInOrder ==
    pc = "returned" =>
      /\ \A type \in Types :
           Unnumbered(VecOf(type))
             = Unnumbered(LabelsUpTo(type, PhysicalLines, Len(PhysicalLines)))
      /\ \A type \in Types : \A i, j \in 1..Len(VecOf(type)) :
           i < j => VecOf(type)[i].line_number <= VecOf(type)[j].line_number

\* Two equal tags from one line, followed by tags of a later line.
C3_Witness ==
    /\ pc = "returned"
    /\ Len(tags) >= 3
    /\ tags[1].label = tags[2].label
    /\ tags[1].line_number = tags[2].line_number
    /\ tags[Len(tags)].line_number > tags[2].line_number

\* C7: every label sits in the vector of its own type, carries the path
\* given to parse and a line number of at least 1, and its text is, character
\* for character, the text of a marker of its type on that line.
C7_LabelFields ==
    \A type \in Types : \A j \in 1..Len(VecOf(type)) :
      LET e == VecOf(type)[j] IN
      /\ e.label_type = type
      /\ e.path = path
      /\ e.line_number >= 1
      /\ e.line_number <= Len(reader)
      /\ Readable(reader[e.line_number])
      /\ \E m \in MarkersOn(TypeKw(type), reader[e.line_number]) :
           e.label = SubSeq(reader[e.line_number], m.gs, m.ge - 1)

\* All four vectors filled, with a label in upper case among them.
C7_Witness ==
    /\ pc = "returned"
    /\ path = "other.rs"
    /\ tags # <<>> /\ files # <<>> /\ dirs # <<>>
    /\ \E j \in 1..Len(refs) : refs[j].label = Codes(<<"R">>)

\* C2: a line that fails to decode contributes no label and does not end the
\* scan: no label carries the number such a line was given, and the texts
\* returned are those parse returns for the decodable lines alone, wherever
\* the undecodable ones sit.
C2_UndecodableLinesSkipped ==
    /\ \A type \in Types : \A j \in 1..Len(VecOf(type)) :
         Readable(reader[VecOf(type)[j].line_number])
    /\ pc = "returned" =>
         LET alone == Parse(Pats, path, SelectSeq(reader, Readable)) IN
         \A type \in Types : Texts(VecOf(type)) = Texts(FieldOf(type, alone))

\* An undecodable line first, and labels from the lines after it.
C2_Witness ==
    /\ pc = "returned"
    /\ Len(reader) >= 2
    /\ reader[1] = LineUndecodable
    /\ \E j \in 1..Len(dirs) : dirs[j].line_number = 2
    /\ \E j \in 1..Len(tags) : tags[j].line_number = Len(reader)

\* C4: the vector of one type depends on that type's pattern, the path and
\* the lines only: parse with any other patterns for the three other types
\* returns the same vector for it.
C4_PatternsIndependent ==
    pc = "returned" =>
      \A other \in PatternSets \ {Pats} :
        LET others == Parse(other, path, reader) IN
        \A type \in Types :
          PatOf(type, other) = TypeKw(type) => FieldOf(type, others) = VecOf(type)

\* A ref marker inside the text of a tag match is found all the same, and
\* so are markers of several types on one line in another order.
C4_Witness ==
    /\ pc = "returned"
    /\ Pats = StdPatterns
    /\ reader = <<LineNested, LineReversed>>
    /\ Len(tags) = 4 /\ Len(refs) = 3 /\ Len(dirs) = 1
    /\ tags[3].label = <<LBracket>> \o Kw_ref \o <<Colon, Ord("x")>>
    /\ refs[2].label = Codes(<<"x">>)

\* C5: parse never fails: no unwrap panics, the scan has an end (it is never
\* past the last outcome of the reader without having returned), and for an
\* empty input the four vectors returned are empty.
C5_NeverFails ==
    /\ pc # "panic"
    /\ pc = "scan" => line_number <= Len(reader)
    /\ pc = "returned" /\ reader = <<>> => Labels = EmptyLabels

\* C10: a second invocation with the same patterns, path and lines returns
\* the same four vectors, in the same order, as the first.
C10_Idempotent ==
    pc = "returned" /\ calls >= 2 => Labels = prev

\* A second invocation has returned labels.
C10_Witness ==
    /\ pc = "returned"
    /\ calls = 2
    /\ tags # <<>> /\ refs # <<>>
    /\ Len(reader) >= 2

\* A letter in the other case; a line with position p in the other case.
OtherCase(c) ==
    IF c \in 97..122 THEN c - 32
    ELSE IF c \in 65..90 THEN c + 32
    ELSE c

WithOtherCase(line, p) == [i \in 1..Len(line) |-> IF i = p THEN OtherCase(line[i]) ELSE line[i]]

\* Line with the text w put in before position q.
WithInserted(line, q, w) == SubSeq(line, 1, q - 1) \o w \o SubSeq(line, q, Len(line))

WhiteSpaceRuns ==
    {<<Space>>, <<Tab>>, <<NoBreakSpace>>, <<EmSpace>>,
     <<VerticalTab, OghamSpace, IdeographicSpace>>}

\* C6 as stated: every label has a text of at least one character, none of
\* them white space or "]".
C6_TextNonEmpty ==
    \A type \in Types : \A j \in 1..Len(VecOf(type)) :
      /\ Len(VecOf(type)[j].label) >= 1
      /\ \A k \in 1..Len(VecOf(type)[j].label) :
           VecOf(type)[j].label[k] \notin WhiteSpace \cup {RBracket}

\* C6, amended: the text region matches zero or more characters that are
\* neither "]" nor white space: no label text holds white space or "]", and
\* a marker whose text is empty is extracted, with the empty text.
C6_TextFreeOfSpaceAndBracket ==
    /\ \A type \in Types : \A j \in 1..Len(VecOf(type)) :
         \A k \in 1..Len(VecOf(type)[j].label) :
           VecOf(type)[j].label[k] \notin WhiteSpace \cup {RBracket}
    /\ pc = "returned" /\ reader = <<Marker(Kw_tag, <<>>)>> =>
         Texts(tags) = << <<>> >>

\* The marker without text has been extracted.
C6_Witness ==
    /\ pc = "returned"
    /\ reader = <<Marker(Kw_tag, <<>>)>>
    /\ Len(tags) = 1
    /\ tags[1].label = <<>>

\* C8: the keyword matches in any mix of cases and the text keeps its case:
\* with any one letter of the keyword of an extracted tag marker put in the
\* other case, parse returns the same tags, and the text of each tag is the
\* text between ":" and "]" as written.
C8_KeywordCaseInsensitive ==
    pc = "returned" /\ Len(reader) = 1 /\ Readable(reader[1]) =>
      LET line == reader[1]
          sel == Selected(tag_regex, line)
      IN /\ Len(tags) = Len(sel)
         /\ \A j \in 1..Len(sel) :
              /\ tags[j].label = SubSeq(line, sel[j].gs, sel[j].ge - 1)
              /\ \A p \in sel[j].a..(sel[j].a + Len(tag_regex) - 1) :
                   Parse(Pats, path, <<WithOtherCase(line, p)>>).tags = tags

\* A tag written with a keyword in mixed case and a text in upper case.
C8_Witness ==
    /\ pc = "returned"
    /\ reader = << Codes(<<"[", "T", "a", "G", ":", "X", "]">>) >>
    /\ Len(tags) = 1
    /\ tags[1].label = Codes(<<"X">>)

\* C9: white space put in after "[", around the keyword, around ":" or
\* between the text and "]" of an extracted tag marker changes neither that
\* it is extracted nor its text: parse returns the same tags.
C9_WhiteSpaceIrrelevant ==
    pc = "returned" /\ Len(reader) = 1 /\ Readable(reader[1]) =>
      LET line == reader[1]
          sel == Selected(tag_regex, line)
      IN \A j \in 1..Len(sel) :
           LET m == sel[j]
               gaps == ((m.s + 1)..m.a) \cup ((m.a + Len(tag_regex))..m.b)
                          \cup ((m.b + 1)..m.gs) \cup (m.ge..m.f)
           IN \A q \in gaps : \A w \in WhiteSpaceRuns :
                Parse(Pats, path, <<WithInserted(line, q, w)>>).tags = tags

\* A tag whose marker already has white space (U+2003) around its text.
C9_Witness ==
    /\ pc = "returned"
    /\ reader = << <<LBracket>> \o Kw_tag
                     \o <<Colon, EmSpace, Ord("X"), EmSpace, RBracket>> >>
    /\ Len(tags) = 1
    /\ tags[1].label = Codes(<<"X">>)

====
